---- MODULE Spec2Model ----
(***************************************************************************)
(* Model of django_cloud_tasks: the retry decorator, CloudTaskWrapper       *)
(* (execute, execute_local, get_body, formatted_headers, create_cloud_task),*)
(* EmulatedTask and batch_execute of src/django_cloud_tasks/base.py, the   *)
(* task decorator of decorators.py and the connection of connection.py.    *)
(*                                                                         *)
(* Text is modelled as sequences of character codes (ASCII), so that        *)
(* json.dumps, str.encode, base64.b64decode and the header normalisation    *)
(* are computed rather than assumed.  A Python dict with string keys is a   *)
(* function whose domain is a set of names; a payload dict, whose order     *)
(* json.dumps keeps, is a sequence of key/value items.                      *)
(***************************************************************************)
EXTENDS Integers, Sequences, FiniteSets, TLC

\* ------------------------------------------------------------------ bounds
\* retry_limit is drawn from 0..MaxRetry.
MaxRetry == 3
\* Batches of every length 0..MaxBatch are drawn (besides the ones around
\* BatchLimit).
MaxBatch == 2

\* Threads 1..MaxThreads read connection.client, each at most MaxReads times.
MaxThreads == 2
MaxReads == 2

\* len(tasks) >= 1000 in batch_execute.
BatchLimit == 1000

\* ------------------------------------------------------------ JSON values
\* A JSON-serialisable Python value: None, an int, a str, or a dict whose
\* items are <<[k |-> key text, v |-> value]>> in insertion order.
None == [t |-> "none", n |-> 0, s |-> <<>>, items |-> <<>>]
JInt(n) == [t |-> "int", n |-> n, s |-> <<>>, items |-> <<>>]
JStr(s) == [t |-> "str", n |-> 0, s |-> s, items |-> <<>>]
JDict(items) == [t |-> "dict", n |-> 0, s |-> <<>>, items |-> items]

\* str(n) for n >= 0, as character codes ("0" is 48).
RECURSIVE Digits(_)
Digits(n) == IF n < 10 THEN <<48 + n>> ELSE Digits(n \div 10) \o <<48 + (n % 10)>>

\* json.dumps(v) with the default separators (", " and ": "), for text
\* that needs no escaping.
RECURSIVE JsonDumps(_), DumpItems(_)
JsonDumps(v) ==
    CASE v.t = "none" -> <<110, 117, 108, 108>>
      [] v.t = "int"  -> Digits(v.n)
      [] v.t = "str"  -> <<34>> \o v.s \o <<34>>
      [] v.t = "dict" -> <<123>> \o DumpItems(v.items) \o <<125>>

DumpItems(items) ==
    IF items = <<>> THEN <<>>
    ELSE LET it == Head(items)
             one == <<34>> \o it.k \o <<34, 58, 32>> \o JsonDumps(it.v)
         IN  IF Tail(items) = <<>> THEN one
             ELSE one \o <<44, 32>> \o DumpItems(Tail(items))

\* The payloads the model draws for a wrapper (the kwargs of the task call):
\* {}, {"x": 1}, {"abc": 1}, {"x": {"y": "a"}}.
Payloads ==
    { JDict(<<>>),
      JDict(<<[k |-> <<120>>, v |-> JInt(1)]>>),
      JDict(<<[k |-> <<97, 98, 99>>, v |-> JInt(1)]>>),
      JDict(<<[k |-> <<120>>, v |-> JDict(<<[k |-> <<121>>, v |-> JStr(<<97>>)]>>)]>>) }

\* The messages the service puts in an item's error payload: "quota" and
\* "denied".
Messages == { <<113, 117, 111, 116, 97>>, <<100, 101, 110, 105, 101, 100>> }

\* The error payload of a failed batch item: {"error": {"message": m}}.
ErrorDoc(m) ==
    JDict(<<[k |-> <<101, 114, 114, 111, 114>>,
            v |-> JDict(<<[k |-> <<109, 101, 115, 115, 97, 103, 101>>,
                          v |-> JStr(m)]>>)]>>)

\* The values json.loads is asked about: the payloads, their nested values,
\* the scalars, and the error payloads with their parts.
JsonDomain ==
    Payloads \cup { JDict(<<[k |-> <<121>>, v |-> JStr(<<97>>)]>>), JStr(<<97>>), None }
             \cup { JInt(n) : n \in 0..9 }
             \cup { ErrorDoc(m) : m \in Messages }
             \cup { ErrorDoc(m).items[1].v : m \in Messages }
             \cup { JStr(m) : m \in Messages }

\* d[key] for a decoded dict d: the value of the item with that key
\* (None stands for KeyError).
GetItem(d, key) ==
    IF \E i \in 1..Len(d.items) : d.items[i].k = key
    THEN d.items[CHOOSE i \in 1..Len(d.items) : d.items[i].k = key].v
    ELSE None

\* The Python str with the given characters.
Text(codes) ==
    CASE codes = <<113, 117, 111, 116, 97>> -> "quota"
      [] codes = <<100, 101, 110, 105, 101, 100>> -> "denied"
      [] OTHER -> "?"

\* json.loads(bytes): the value whose JSON text the bytes are.  ok = FALSE
\* stands for json.JSONDecodeError / UnicodeDecodeError, and for a text of
\* a value outside JsonDomain.
JsonLoads(bytes) ==
    IF \E v \in JsonDomain : JsonDumps(v) = bytes
    THEN [ok |-> TRUE, val |-> CHOOSE v \in JsonDomain : JsonDumps(v) = bytes]
    ELSE [ok |-> FALSE, val |-> None]

\* ---------------------------------------------------------------- base64
\* The 6-bit value of a base64 alphabet character, -1 for any other byte.
B64Value(c) ==
    CASE c \in 65..90  -> c - 65
      [] c \in 97..122 -> c - 71
      [] c \in 48..57  -> c + 4
      [] c = 43        -> 62
      [] c = 47        -> 63
      [] OTHER         -> -1

IsB64Char(c) == B64Value(c) >= 0

\* The bytes the 6-bit values read so far stand for: three of four values,
\* two of three, one of two.
B64Bytes(quad) ==
    IF Len(quad) < 2 THEN <<>>
    ELSE << quad[1] * 4 + (quad[2] \div 16) >>
         \o (IF Len(quad) < 3 THEN <<>>
             ELSE << (quad[2] % 16) * 16 + (quad[3] \div 4) >>)
         \o (IF Len(quad) < 4 THEN <<>>
             ELSE << (quad[3] % 4) * 64 + quad[4] >>)

\* The scan of binascii.a2b_base64 (not strict): bytes outside the alphabet
\* are skipped, "=" (61) ends the data once it completes a group of four,
\* and input that ends inside a group raises binascii.Error (ok = FALSE).
RECURSIVE B64Scan(_, _, _, _)
B64Scan(bytes, quad, pads, out) ==
    IF bytes = <<>> THEN [ok |-> quad = <<>>, bytes |-> out]
    ELSE LET c == Head(bytes)
         IN  IF c = 61
             THEN IF Len(quad) >= 2 /\ Len(quad) + pads + 1 >= 4
                  THEN [ok |-> TRUE, bytes |-> out \o B64Bytes(quad)]
                  ELSE B64Scan(Tail(bytes), quad,
                               IF Len(quad) >= 2 THEN pads + 1 ELSE pads, out)
             ELSE IF ~IsB64Char(c) THEN B64Scan(Tail(bytes), quad, pads, out)
             ELSE IF Len(quad) = 3
                  THEN B64Scan(Tail(bytes), <<>>, 0,
                               out \o B64Bytes(Append(quad, B64Value(c))))
                  ELSE B64Scan(Tail(bytes), Append(quad, B64Value(c)), 0, out)

\* base64.b64decode(bytes), validate=False.
B64Decode(bytes) == B64Scan(bytes, <<>>, 0, <<>>)

\* ------------------------------------------------------- configuration
\* The header names of constants.py, as text: "X-DCT-SECRET".
HANDLER_SECRET_HEADER_NAME == <<88, 45, 68, 67, 84, 45, 83, 69, 67, 82, 69, 84>>

\* What DCTConfig returns (settings, fixed for the life of the process).
HandlerSecret == "handler-secret"
TaskHandlerRootUrl == "https://worker/api/_tasks/"
ServiceAccountEmail == "project@appspot.gserviceaccount.com"
GoogleProjectId == "project"

\* "Content-type", the header name get_body attaches to a dict payload.
ContentType == <<67, 111, 110, 116, 101, 110, 116, 45, 116, 121, 112, 101>>

\* --------------------------------------------------------------- wrappers
\* base_task.internal_task_name: a task made by create_task carries its
\* dotted name; "unnamed" stands for a task object whose internal_task_name
\* is None, and "" for base_task=None.
TaskName(base_task) == IF base_task = "unnamed" THEN "" ELSE base_task

\* CloudTaskWrapper.__init__: the attributes of a wrapper.
CloudTaskWrapper(base_task, queue, data, internal_task_name, task_handler_url, is_remote, headers) ==
    [ base_task          |-> base_task,
      data               |-> data,
      queue              |-> queue,
      internal_task_name |-> IF internal_task_name # "" THEN internal_task_name
                             ELSE TaskName(base_task),
      task_handler_url   |-> task_handler_url,
      handler_secret     |-> HandlerSecret,
      is_remote          |-> is_remote,
      headers            |-> headers ]

\* The queues, and the custom headers of a declaration (**headers), as
\* <<[k |-> name text, v |-> value]>>: none, foo_bar="v1", and
\* x_dct_secret="forged".
Queues == {"default", "reports"}
HeaderSets ==
    { <<>>,
      <<[k |-> <<102, 111, 111, 95, 98, 97, 114>>, v |-> "v1"]>>,
      <<[k |-> <<120, 95, 100, 99, 116, 95, 115, 101, 99, 114, 101, 116>>,
         v |-> "forged"]>> }

\* decorators.task: inner_run(**kwargs) returns a wrapper bound to the
\* declared task, not remote.
TaskCall(queue, headers, kwargs) ==
    CloudTaskWrapper("app.tasks.send", queue, kwargs, "", TaskHandlerRootUrl,
                     FALSE, headers)

\* remote_task(...)(**kwargs): RemoteCloudTask.payload, a wrapper with no
\* base task, marked remote.
RemoteTaskCall(queue, headers, kwargs) ==
    CloudTaskWrapper("", queue, kwargs, "worker.tasks.send", TaskHandlerRootUrl,
                     TRUE, headers)

Wrappers ==
    { TaskCall(q, h, d) : q \in Queues, h \in HeaderSets, d \in Payloads }
    \cup { RemoteTaskCall(q, h, d) : q \in Queues, h \in HeaderSets, d \in Payloads }

\* key.replace("_", "-").upper(), character by character.
UpperChar(c) == IF c = 95 THEN 45 ELSE IF c \in 97..122 THEN c - 32 ELSE c
NormalizeKey(key) == [i \in 1..Len(key) |-> UpperChar(key[i])]

\* The loop of formatted_headers: formatted[_key] = value, in order.
RECURSIVE FormatInto(_, _)
FormatInto(headers, formatted) ==
    IF headers = <<>> THEN formatted
    ELSE FormatInto(Tail(headers),
                    (NormalizeKey(Head(headers).k) :> Head(headers).v) @@ formatted)

\* CloudTaskWrapper.formatted_headers: the secret is assigned last.
FormattedHeaders(self) ==
    (HANDLER_SECRET_HEADER_NAME :> self.handler_secret)
        @@ FormatInto(self.headers, << >>)

\* payload.encode() of get_body: the bytes of the JSON text of a dict, or of
\* the text of a str payload.
EncodePayload(payload) ==
    IF payload.t = "dict" THEN JsonDumps(payload) ELSE payload.s

\* CloudTaskWrapper.get_body(payload, task_name=...): returns body["task"].
\* (in_seconds is passed by no caller.)
GetBody(self, payload, task_name) ==
    LET base == [ http_method |-> "POST",
                  url         |-> self.task_handler_url,
                  oidc_token  |-> [service_account_email |-> ServiceAccountEmail] ]
        withHeaders ==
            IF payload.t = "dict"
            THEN [headers |-> (ContentType :> "application/json")] @@ base
            ELSE base
        http_request ==
            IF payload.t # "none"
            THEN [body |-> EncodePayload(payload)] @@ withHeaders
            ELSE base
        task == [http_request |-> http_request]
    IN  IF task_name # "" THEN [name |-> task_name] @@ task ELSE task

\* queue_path(project, location, queue) of the client.
QueuePath(project, location, queue) ==
    <<"projects", project, "locations", location, "queues", queue>>

\* The request create_cloud_task(queue="default") sends to create_task.
CreateTaskRequest(self, queue) ==
    [ parent |-> QueuePath(GoogleProjectId, "us-central1", queue),
      task   |-> GetBody(self, None, "") ]

\* ------------------------------------------------------------ EmulatedTask
\* EmulatedTask.__init__/setup on `body`: exc names the exception raised
\* ("" when none), decoded is the JSON-decoded body.
EmulatedTaskSetup(body) ==
    IF "task" \notin DOMAIN body
        THEN [exc |-> "KeyError", decoded |-> None]
    ELSE IF "http_request" \notin DOMAIN body["task"]
        THEN [exc |-> "KeyError", decoded |-> None]
    ELSE IF "body" \notin DOMAIN body["task"]["http_request"]
        THEN [exc |-> "KeyError", decoded |-> None]
    ELSE LET raw  == B64Decode(body["task"]["http_request"]["body"])
             json == JsonLoads(raw.bytes)
         IN  IF ~raw.ok THEN [exc |-> "binascii.Error", decoded |-> None]
             ELSE IF ~json.ok THEN [exc |-> "JSONDecodeError", decoded |-> None]
             ELSE [exc |-> "", decoded |-> json.val]

\* CloudTaskWrapper.execute_local: EmulatedTask(body=self.get_body()).
ExecuteLocalSetup(self) == EmulatedTaskSetup(GetBody(self, None, ""))

\* ------------------------------------------------------------------ state
VARIABLES
    execute_locally,    \* DCTConfig.execute_locally()
    block_remote_tasks, \* DCTConfig.block_remote_tasks()
    client,             \* the "client" attribute set on the connection object:
                        \* which constructed client it holds (0: not set)
    constructed,        \* CloudTasksClient constructions so far
    th,                 \* the threads reading connection.client
    registry,           \* names registered by the task decorator
    reports,            \* what the batch response reported, item by item
    client_reads,       \* reads of connection.client by the running call
    local_runs,         \* the wrappers execute_local was called on
    pc,                 \* where the running call is
    op,                 \* the call: retry, execute, batch_execute, ...
    self,               \* the wrapper execute runs on
    tasks,              \* the batch of batch_execute
    idx,                \* position of the batch loop
    retry_limit,
    attempts_left,      \* of retry's wrapper
    error,              \* of retry's wrapper (NoError is None)
    invocations,        \* calls of f made by retry's wrapper
    sleeps,             \* time.sleep calls
    bodies,             \* get_body calls
    created,            \* the create_task requests sent, with their outcome
    batch,              \* what batch.add received
    submitted,          \* batch.execute() calls
    skipped,            \* remote tasks logged as ignored
    delivered,          \* bodies handed to run_task by EmulatedTask.execute
    value,              \* what a property or constructor call evaluated to
    outcome             \* how the call ended

vars == << execute_locally, block_remote_tasks, client, constructed, th,
           registry, reports, client_reads,
           local_runs, pc, op, self,
           tasks, idx, retry_limit, attempts_left, error, invocations, sleeps,
           bodies, created, batch, submitted, skipped, delivered, value, outcome >>

config == << execute_locally, block_remote_tasks >>

\* An exception: its class, its args, and which attempt raised it.
Err(exc, args, attempt) == [exc |-> exc, args |-> args, attempt |-> attempt]
NoError == Err("None", <<>>, 0)

NoOutcome == [kind |-> "none", err |-> NoError, val |-> ""]
Returned(val) == [kind |-> "returned", err |-> NoError, val |-> val]
Raised(err) == [kind |-> "raised", err |-> err, val |-> ""]

NoWrapper == CloudTaskWrapper("", "", None, "", "", FALSE, <<>>)

ExhaustedPrefix == "Task scheduling limit exhausted"

\* The connection object has no "client" in its __dict__ yet.
NotSet == 0

\* connection.client read by the one caller of the calls below, start to
\* end: the attribute when it is set, else cached_property.__get__, which
\* constructs a client and sets it.
ClientRead ==
    [ cached      |-> IF client = NotSet THEN constructed + 1 ELSE client,
      constructed |-> IF client = NotSet THEN constructed + 1 ELSE constructed ]

\* The threads that read connection.client; each is outside a read (out),
\* about to call fget, or about to setattr the value fget returned.
Threads == 1..MaxThreads
ThreadStart == [pc |-> "out", value |-> NotSet, got |-> NotSet, reads |-> 0]

\* Wrapper w can exist: a wrapper of a declared task is made by inner_run,
\* which the declaration returns.
Made(w) == w.is_remote \/ w.base_task \in registry

\* No batch response yet.
NoReports == [transport |-> "none", items |-> <<>>]

Init ==
    /\ execute_locally \in BOOLEAN
    /\ block_remote_tasks \in BOOLEAN
    /\ client = NotSet
    /\ constructed = 0
    /\ th = [t \in Threads |-> ThreadStart]
    /\ registry = {}
    /\ reports = NoReports
    /\ client_reads = 0
    /\ local_runs = <<>>
    /\ pc = "idle"
    /\ op = "none"
    /\ self = NoWrapper
    /\ tasks = <<>>
    /\ idx = 0
    /\ retry_limit = 0
    /\ attempts_left = 0
    /\ error = NoError
    /\ invocations = 0
    /\ sleeps = 0
    /\ bodies = 0
    /\ created = <<>>
    /\ batch = <<>>
    /\ submitted = 0
    /\ skipped = <<>>
    /\ delivered = <<>>
    /\ value = None
    /\ outcome = NoOutcome

\* ------------------------------------------------------------------ retry
\* The two copies of retry: base.retry, and decorators.retry, whose module
\* imports neither logging nor time.
RetryModules == {"base.retry", "decorators.retry"}

\* retry(retry_limit, retry_interval)(f)(): the wrapper is entered.
CallRetry(module, limit) ==
    /\ pc = "idle"
    /\ op' = module
    /\ retry_limit' = limit
    /\ attempts_left' = limit
    /\ error' = NoError
    /\ pc' = "retry_loop"
    /\ UNCHANGED << config, registry, th, reports, client_reads, local_runs, client, constructed, self, tasks, idx, invocations,
                    sleeps, bodies, created, batch, submitted, skipped, delivered,
                    value, outcome >>

\* LoopContinues as it would be with >= 0 for > 1 (C18 fails for it).
LoopContinuesAtZero(left) == left >= 0

\* while attempts_left > 1
LoopContinues(left) == left > 1

\* try: return f() / except Exception as e: error = e; logger.exception(...)
\* In decorators.py the name logger is not defined: the handler raises
\* NameError there.
RetryAttempt ==
    /\ pc = "retry_loop"
    /\ LoopContinues(attempts_left)
    /\ invocations' = invocations + 1
    /\ \E ok \in BOOLEAN :
        IF ok
        THEN /\ outcome' = Returned("f()")
             /\ pc' = "done"
             /\ error' = error
        ELSE /\ error' = Err("OperationError", <<"f failed">>, invocations + 1)
             /\ IF op = "decorators.retry"
                THEN /\ pc' = "done"
                     /\ outcome' = Raised(Err("NameError",
                                       <<"name 'logger' is not defined">>, 0))
                ELSE /\ pc' = "retry_sleep"
                     /\ outcome' = outcome
    /\ UNCHANGED << config, registry, th, reports, client_reads, local_runs, client, constructed, op, self, tasks, idx, retry_limit,
                    attempts_left, sleeps, bodies, created, batch, submitted,
                    skipped, delivered, value >>

\* time.sleep(retry_interval); attempts_left -= 1
RetrySleep ==
    /\ pc = "retry_sleep"
    /\ sleeps' = sleeps + 1
    /\ attempts_left' = attempts_left - 1
    /\ pc' = "retry_loop"
    /\ UNCHANGED << config, registry, th, reports, client_reads, local_runs, client, constructed, op, self, tasks, idx, retry_limit,
                    error, invocations, bodies, created, batch, submitted, skipped,
                    delivered, value, outcome >>

\* error.args = ("Task scheduling limit exhausted",) + error.args; raise error
\* With error still None the assignment itself raises AttributeError.
Exhausted(err) ==
    IF err = NoError
    THEN Err("AttributeError", <<"'NoneType' object has no attribute 'args'">>, 0)
    ELSE Err(err.exc, <<ExhaustedPrefix>> \o err.args, err.attempt)

RetryExhausted ==
    /\ pc = "retry_loop"
    /\ ~LoopContinues(attempts_left)
    /\ outcome' = Raised(Exhausted(error))
    /\ pc' = "done"
    /\ UNCHANGED << config, registry, th, reports, client_reads, local_runs, client, constructed, op, self, tasks, idx, retry_limit,
                    attempts_left, error, invocations, sleeps, bodies, created,
                    batch, submitted, skipped, delivered, value >>

\* ---------------------------------------------------------------- execute
\* ExecutePath as it would be with the first test lacking its "not" (C4
\* fails for it).
ExecutePathLocalIfRemote(w) ==
    IF execute_locally /\ w.is_remote THEN "local"
    ELSE IF w.is_remote /\ block_remote_tasks THEN "blocked"
    ELSE "remote"

\* ExecutePath as it would be with the first test lacking "and not
\* self._is_remote" (C6 fails for it).
ExecutePathLocalFirst(w) ==
    IF execute_locally THEN "local"
    ELSE IF w.is_remote /\ block_remote_tasks THEN "blocked"
    ELSE "remote"

\* ExecutePath as it would be with the second test lacking
\* "self._is_remote and" (C20 fails for it).
ExecutePathBlockAny(w) ==
    IF execute_locally /\ ~w.is_remote THEN "local"
    ELSE IF block_remote_tasks THEN "blocked"
    ELSE "remote"

\* The two tests at the head of CloudTaskWrapper.execute.
ExecutePath(w) ==
    IF execute_locally /\ ~w.is_remote THEN "local"
    ELSE IF w.is_remote /\ block_remote_tasks THEN "blocked"
    ELSE "remote"

CallExecute(w, limit) ==
    /\ pc = "idle"
    /\ Made(w)
    /\ op' = "execute"
    /\ self' = w
    /\ retry_limit' = limit
    /\ IF ExecutePath(w) = "local"
       THEN pc' = "execute_local" /\ outcome' = outcome /\ skipped' = skipped
       ELSE IF ExecutePath(w) = "blocked"
       THEN /\ pc' = "done"
            /\ outcome' = Returned("None")
            /\ skipped' = Append(skipped, w)
       ELSE pc' = "create_cloud_task" /\ outcome' = outcome /\ skipped' = skipped
    /\ UNCHANGED << config, registry, th, reports, client_reads, local_runs, client, constructed, tasks, idx, attempts_left, error,
                    invocations, sleeps, bodies, created, batch, submitted,
                    delivered, value >>

\* EmulatedTask(body=self.get_body()).execute(): how execute_local ends, and
\* what run_task is handed.
LocalOutcome(w) ==
    IF ExecuteLocalSetup(w).exc # ""
    THEN Raised(Err(ExecuteLocalSetup(w).exc, <<"task">>, 0))
    ELSE Returned("run_task(request)")

LocalDelivery(w) ==
    IF ExecuteLocalSetup(w).exc # "" THEN <<>>
    ELSE << [task |-> w.internal_task_name, body |-> ExecuteLocalSetup(w).decoded] >>

ExecuteLocal ==
    /\ pc = "execute_local"
    /\ op = "execute"
    /\ local_runs' = Append(local_runs, self)
    /\ bodies' = bodies + 1
    /\ delivered' = delivered \o LocalDelivery(self)
    /\ outcome' = LocalOutcome(self)
    /\ pc' = "done"
    /\ UNCHANGED << config, registry, th, reports, client_reads, client, constructed, op, self, tasks, idx, retry_limit,
                    attempts_left, error, invocations, sleeps, created, batch,
                    submitted, skipped, value >>

\* What the client raises when the n-th create_task of a call fails.
ClientError(n) == Err("GoogleAPICallError", <<"create_task failed">>, n)

\* Propagated as it would be if the error went through the exhaustion path
\* (C3 fails for it).
PropagatedPrefixed(err) == Raised(Exhausted(err))

\* create_cloud_task and execute catch nothing: the client's error is what
\* the caller gets.
Propagated(err) == Raised(err)

\* The create_task request sent for w, and the error it raised (NoError
\* when it returned a task).
Sent(w, ok, n) ==
    [ req |-> CreateTaskRequest(w, "default"),
      ok  |-> ok,
      err |-> IF ok THEN NoError ELSE ClientError(n) ]

\* self.create_cloud_task(), evaluated before either branch on retry_limit:
\* the body is built, connection.client read (and constructed when not yet
\* cached), and create_task sent to the queue "default".
CreateCloudTask ==
    /\ pc = "create_cloud_task"
    /\ op = "execute"
    /\ bodies' = bodies + 1
    /\ client' = ClientRead.cached
    /\ constructed' = ClientRead.constructed
    /\ client_reads' = client_reads + 2
    /\ \E ok \in BOOLEAN :
        /\ created' = Append(created, Sent(self, ok, Len(created) + 1))
        /\ IF ok
           THEN pc' = "task_execute" /\ outcome' = outcome
           ELSE pc' = "done" /\ outcome' = Propagated(ClientError(Len(created) + 1))
    /\ UNCHANGED << config, registry, th, reports, local_runs, op, self, tasks, idx, retry_limit, attempts_left, error,
                    invocations, sleeps, batch, submitted, skipped, delivered,
                    value >>

\* What execute returns once <created task>.execute() has returned: that
\* value when retry_limit is falsy, else retry(...)(<that value>), which is
\* the wrapper function, not called.
ExecuteResult(limit) ==
    IF limit = 0 THEN Returned("task.execute()") ELSE Returned("retry wrapper")

\* .execute() on the task create_task returned: the client library's task
\* object decides whether that attribute exists.
TaskExecute ==
    /\ pc = "task_execute"
    /\ \E has_execute \in BOOLEAN :
        outcome' = IF has_execute THEN ExecuteResult(retry_limit)
                   ELSE Raised(Err("AttributeError", <<"execute">>, 0))
    /\ pc' = "done"
    /\ UNCHANGED << config, registry, th, reports, client_reads, local_runs, client, constructed, op, self, tasks, idx, retry_limit,
                    attempts_left, error, invocations, sleeps, bodies, created,
                    batch, submitted, skipped, delivered, value >>

\* ---------------------------------------------------------- batch_execute
\* BatchTooLarge as it would be with > for >= (C9 fails for it).
BatchTooLargeStrict(n) == n > BatchLimit

\* if len(tasks) >= 1000
BatchTooLarge(n) == n >= BatchLimit

CallBatch(ts, limit) ==
    /\ pc = "idle"
    /\ { i \in 1..Len(ts) : ~Made(ts[i]) } = {}
    /\ op' = "batch_execute"
    /\ tasks' = ts
    /\ retry_limit' = limit
    /\ IF BatchTooLarge(Len(ts))
       THEN /\ outcome' = Raised(Err("Exception",
                   <<"Maximum number of tasks in batch cannot exceed 1000">>, 0))
            /\ pc' = "done"
            /\ UNCHANGED << idx, client, constructed, client_reads >>
       ELSE IF execute_locally
       THEN /\ IF ts = <<>>
               THEN pc' = "done" /\ outcome' = Returned("None") /\ idx' = idx
               ELSE pc' = "batch_local" /\ outcome' = outcome /\ idx' = 1
            /\ UNCHANGED << client, constructed, client_reads >>
       ELSE \* client = connection.client; batch = client.new_batch_http_request()
            /\ client' = ClientRead.cached
            /\ constructed' = ClientRead.constructed
            /\ client_reads' = client_reads + 1
            /\ outcome' = outcome
            /\ IF ts = <<>>
               THEN pc' = "batch_submit" /\ idx' = idx
               ELSE pc' = "batch_add" /\ idx' = 1
    /\ UNCHANGED << config, registry, th, reports, local_runs, self, attempts_left, error, invocations, sleeps,
                    bodies, created, batch, submitted, skipped, delivered, value >>

\* BatchLocalBranch as it would be if only blocked remote tasks were kept
\* from the local run (C14 fails for it).
BatchLocalBranchUnlessBlocked(t) ==
    IF t.is_remote /\ block_remote_tasks THEN "ignored" ELSE "local"

\* The branches of the loop body in local mode: run locally, log as
\* ignored, or neither.
BatchLocalBranch(t) ==
    IF ~t.is_remote THEN "local"
    ELSE IF t.is_remote /\ block_remote_tasks THEN "ignored"
    ELSE "none"

\* for t in tasks: ... ; return  (one iteration per step)
BatchLocalStep ==
    /\ pc = "batch_local"
    /\ LET t      == tasks[idx]
           branch == BatchLocalBranch(t)
           raised == branch = "local" /\ LocalOutcome(t).kind = "raised"
       IN  /\ local_runs' = IF branch = "local" THEN Append(local_runs, t)
                            ELSE local_runs
           /\ bodies' = IF branch = "local" THEN bodies + 1 ELSE bodies
           /\ delivered' = IF branch = "local" THEN delivered \o LocalDelivery(t)
                           ELSE delivered
           /\ skipped' = IF branch = "ignored" THEN Append(skipped, t) ELSE skipped
           /\ IF raised
              THEN pc' = "done" /\ outcome' = LocalOutcome(t) /\ idx' = idx
              ELSE IF idx = Len(tasks)
              THEN pc' = "done" /\ outcome' = Returned("None") /\ idx' = idx
              ELSE pc' = "batch_local" /\ outcome' = outcome /\ idx' = idx + 1
    /\ UNCHANGED << config, registry, th, reports, client_reads, client, constructed, op, self, tasks, retry_limit,
                    attempts_left, error, invocations, sleeps, created, batch,
                    submitted, value >>

\* batch.add(t.create_cloud_task(), callback=batch_callback_logger): the
\* argument is evaluated first, which sends create_task for t.
BatchAddStep ==
    /\ pc = "batch_add"
    /\ bodies' = bodies + 1
    /\ client_reads' = client_reads + 2
    /\ \E ok \in BOOLEAN :
        /\ created' = Append(created, Sent(tasks[idx], ok, Len(created) + 1))
        /\ IF ~ok
           THEN /\ pc' = "done"
                /\ outcome' = Propagated(ClientError(Len(created) + 1))
                /\ UNCHANGED << batch, idx >>
           ELSE /\ batch' = Append(batch, idx)
                /\ outcome' = outcome
                /\ IF idx = Len(tasks)
                   THEN pc' = "batch_submit" /\ idx' = idx
                   ELSE pc' = "batch_add" /\ idx' = idx + 1
    /\ UNCHANGED << config, registry, th, reports, local_runs, client, constructed, op, self, tasks, retry_limit,
                    attempts_left, error, invocations, sleeps, submitted, skipped,
                    delivered, value >>

\* What batch_execute returns once batch.execute() has returned: its value
\* (None) when retry_limit is falsy, else retry(...)(None), the wrapper
\* function, not called.
BatchResult(limit) ==
    IF limit = 0 THEN Returned("None") ELSE Returned("retry wrapper")

\* The exception the batch hands the callback for a failed item: args are
\* the response and the content bytes.
HttpError(content) == Err("HttpError", <<"resp", content>>, 0)

\* What an item of the batch response is reported with: no exception, an
\* error payload with one of the messages, or a body that is not JSON
\* ("oops").
ItemReports ==
    { NoError } \cup { HttpError(JsonDumps(ErrorDoc(m))) : m \in Messages }
                \cup { HttpError(<<111, 111, 112, 115>>) }

\* The responses batch.execute() can get for n items: the request itself
\* failing, or one report per item (every combination up to MaxBatch items;
\* for longer batches all items fine, the last one failed, or the first and
\* the last failed with different messages).
BatchResponses(n) ==
    { [transport |-> "failed", items |-> <<>>] }
    \cup { [transport |-> "ok", items |-> its] : its \in
            IF n <= MaxBatch THEN [1..n -> ItemReports]
            ELSE { [i \in 1..n |-> NoError],
                   [i \in 1..n |-> IF i = n
                                    THEN HttpError(JsonDumps(ErrorDoc(<<113, 117, 111, 116, 97>>)))
                                    ELSE NoError],
                   [i \in 1..n |-> IF i = 1
                                    THEN HttpError(JsonDumps(ErrorDoc(<<100, 101, 110, 105, 101, 100>>)))
                                    ELSE IF i = n
                                    THEN HttpError(JsonDumps(ErrorDoc(<<113, 117, 111, 116, 97>>)))
                                    ELSE NoError] } }

\* batch_callback_logger(id, message, exception): what it raises (NoError
\* when it returns).
BatchCallbackLogger(exception) ==
    IF exception = NoError THEN NoError
    ELSE LET decoded == JsonLoads(exception.args[2])
         IN  IF ~decoded.ok
             THEN Err("JSONDecodeError", <<"Expecting value">>, 0)
             ELSE Err("Exception",
                      <<Text(GetItem(GetItem(decoded.val, <<101, 114, 114, 111, 114>>),
                                     <<109, 101, 115, 115, 97, 103, 101>>).s)>>, 0)

\* RunCallbacks as it would be if every callback ran and the last error
\* were the one raised (C19 fails for it).
RunCallbacksRaiseLast(items) ==
    LET failed == { i \in 1..Len(items) : BatchCallbackLogger(items[i]) # NoError }
    IN  IF failed = {} THEN NoError
        ELSE BatchCallbackLogger(items[CHOOSE i \in failed : \A j \in failed : j <= i])

\* The batch calls the callback for each item in the order added; the first
\* callback that raises ends batch.execute() with its error.
RunCallbacks(items) ==
    LET failed == { i \in 1..Len(items) : BatchCallbackLogger(items[i]) # NoError }
    IN  IF failed = {} THEN NoError
        ELSE BatchCallbackLogger(items[CHOOSE i \in failed : \A j \in failed : i <= j])

\* batch.execute(), evaluated before either branch on retry_limit.
BatchSubmit ==
    /\ pc = "batch_submit"
    /\ submitted' = submitted + 1
    /\ \E r \in BatchResponses(Len(batch)) :
        /\ reports' = r
        /\ outcome' =
              IF r.transport = "failed"
              THEN Raised(Err("Exception", <<"batch failed">>, submitted + 1))
              ELSE IF RunCallbacks(r.items) # NoError
              THEN Raised(RunCallbacks(r.items))
              ELSE BatchResult(retry_limit)
    /\ pc' = "done"
    /\ UNCHANGED << config, registry, th, client_reads, local_runs, client, constructed, op, self, tasks, idx, retry_limit,
                    attempts_left, error, invocations, sleeps, bodies, created,
                    batch, skipped, delivered, value >>

\* ------------------------------------------------- properties, constructors
\* wrapper.formatted_headers read by a caller.
CallFormattedHeaders(w) ==
    /\ pc = "idle"
    /\ Made(w)
    /\ op' = "formatted_headers"
    /\ self' = w
    /\ value' = FormattedHeaders(w)
    /\ outcome' = Returned("formatted")
    /\ pc' = "done"
    /\ UNCHANGED << config, registry, th, reports, client_reads, local_runs, client, constructed, tasks, idx, retry_limit,
                    attempts_left, error, invocations, sleeps, bodies, created,
                    batch, submitted, skipped, delivered >>

\* EmulatedTask(body={"task": w.get_body(payload=w._data)}): the body built
\* with the wrapper's payload, handed to the emulated path.
CallEmulatedTask(w) ==
    /\ pc = "idle"
    /\ Made(w)
    /\ op' = "EmulatedTask"
    /\ self' = w
    /\ bodies' = bodies + 1
    /\ value' = EmulatedTaskSetup([task |-> GetBody(w, w.data, "")])
    /\ outcome' = IF value'.exc = "" THEN Returned("EmulatedTask")
                  ELSE Raised(Err(value'.exc, <<>>, 0))
    /\ pc' = "done"
    /\ UNCHANGED << config, registry, th, reports, client_reads, local_runs, client, constructed, tasks, idx, retry_limit,
                    attempts_left, error, invocations, sleeps, created, batch,
                    submitted, skipped, delivered >>

\* WrapperSetup as it would be if setup fetched the client rather than
\* binding the connection object (C15 fails for it).
WrapperSetupFetchesClient == "connection.client"

\* CloudTaskWrapper.setup: self._connection = connection, the connection
\* object itself; its client attribute is not read.
WrapperSetup == "connection"

\* registry.register(task_cls): the definition is filed under its name.
Register(reg, name) == reg \cup {name}

\* @task(queue, **headers) applied to the function app.tasks.send: the
\* task class is made and registered, and inner_run is returned.
DeclareTask ==
    /\ pc = "idle"
    /\ op' = "task"
    /\ registry' = Register(registry, "app.tasks.send")
    /\ outcome' = Returned("inner_run")
    /\ pc' = "done"
    /\ UNCHANGED << config, th, reports, client, constructed, client_reads,
                    local_runs, self, tasks, idx, retry_limit, attempts_left,
                    error, invocations, sleeps, bodies, created, batch,
                    submitted, skipped, delivered, value >>

\* CloudTaskWrapper(...) called by `name`: __init__ stores the arguments
\* and runs setup; the wrapper is what the caller gets.
Construct(w, name) ==
    /\ pc = "idle"
    /\ op' = name
    /\ value' = w
    /\ IF WrapperSetup = "connection.client"
       THEN /\ client' = ClientRead.cached
            /\ constructed' = ClientRead.constructed
            /\ client_reads' = client_reads + 1
       ELSE UNCHANGED << client, constructed, client_reads >>
    /\ outcome' = Returned("wrapper")
    /\ pc' = "done"
    /\ UNCHANGED << config, registry, th, reports, local_runs, self, tasks, idx,
                    retry_limit, attempts_left, error, invocations, sleeps,
                    bodies, created, batch, submitted, skipped, delivered >>

\* How CloudTaskWrapper.__init__ and setup end for these arguments ("" is
\* None): `internal_task_name or self._base_task.internal_task_name` reads
\* an attribute of None when both are missing; setup then raises
\* ValueError for a falsy name and for a falsy handler URL.
InitError(base_task, internal_task_name, task_handler_url) ==
    IF internal_task_name = "" /\ base_task = ""
    THEN Err("AttributeError",
             <<"'NoneType' object has no attribute 'internal_task_name'">>, 0)
    ELSE IF internal_task_name = "" /\ TaskName(base_task) = ""
    THEN Err("ValueError",
             <<"Either internal_task_name or base_task should be provided">>, 0)
    ELSE IF task_handler_url = ""
    THEN Err("ValueError",
             <<"Could not identify task handler URL of the worker service">>, 0)
    ELSE NoError

\* CloudTaskWrapper(base_task, "default", {}, internal_task_name,
\* task_handler_url) called directly: self is the object under
\* construction, value the wrapper the caller gets (None when the
\* constructor raised).
CallCloudTaskWrapper(base_task, internal_task_name, task_handler_url) ==
    /\ pc = "idle"
    /\ op' = "CloudTaskWrapper"
    /\ self' = CloudTaskWrapper(base_task, "default", JDict(<<>>), internal_task_name,
                                task_handler_url, FALSE, <<>>)
    /\ LET err == InitError(base_task, internal_task_name, task_handler_url)
       IN  IF err = NoError
           THEN value' = self' /\ outcome' = Returned("wrapper")
           ELSE value' = None /\ outcome' = Raised(err)
    /\ pc' = "done"
    /\ UNCHANGED << config, registry, th, reports, client, constructed,
                    client_reads, local_runs, tasks, idx, retry_limit,
                    attempts_left, error, invocations, sleeps, bodies, created,
                    batch, submitted, skipped, delivered >>

\* inner_run(**kwargs) of a declared task.
CallInnerRun(queue, headers, kwargs) ==
    /\ "app.tasks.send" \in registry
    /\ Construct(TaskCall(queue, headers, kwargs), "inner_run")

\* remote_task(queue, handler, **headers)(**kwargs)
CallRemoteTask(queue, headers, kwargs) ==
    /\ pc = "idle"
    /\ Construct(RemoteTaskCall(queue, headers, kwargs), "remote_task")

\* wrapper.set_queue(queue): self._queue = queue
SetQueue(w, queue) == [w EXCEPT !.queue = queue]

CallSetQueue(w, queue) ==
    /\ pc = "idle"
    /\ Made(w)
    /\ op' = "set_queue"
    /\ self' = w
    /\ value' = SetQueue(w, queue)
    /\ outcome' = Returned("None")
    /\ pc' = "done"
    /\ UNCHANGED << config, registry, th, reports, client_reads, local_runs,
                    client, constructed, tasks, idx, retry_limit, attempts_left,
                    error, invocations, sleeps, bodies, created, batch,
                    submitted, skipped, delivered >>

\* The call has ended; the caller goes on to its next call.  The cached
\* client stays.
Return ==
    /\ pc = "done"
    /\ pc' = "idle"
    /\ op' = "none"
    /\ self' = NoWrapper
    /\ tasks' = <<>>
    /\ idx' = 0
    /\ retry_limit' = 0
    /\ attempts_left' = 0
    /\ error' = NoError
    /\ invocations' = 0
    /\ sleeps' = 0
    /\ bodies' = 0
    /\ created' = <<>>
    /\ batch' = <<>>
    /\ submitted' = 0
    /\ skipped' = <<>>
    /\ delivered' = <<>>
    /\ value' = None
    /\ outcome' = NoOutcome
    /\ client_reads' = 0
    /\ local_runs' = <<>>
    /\ reports' = NoReports
    /\ UNCHANGED << config, registry, th, client, constructed >>

\* ----------------------------------------------------------------- inputs
RetryLimits == 0..MaxRetry

\* The arguments of a direct CloudTaskWrapper(...) call: no base task, the
\* declared one, or one without a name; no internal_task_name or one; no
\* handler URL or the configured one.
BaseTasks == {"", "app.tasks.send", "unnamed"}
TaskNames == {"", "worker.tasks.send"}
HandlerUrls == {"", TaskHandlerRootUrl}

\* The wrappers batches are made of: payload {"x": 1}, no custom headers.
BatchWrappers ==
    { w \in Wrappers : w.headers = <<>> /\ w.data = JDict(<<[k |-> <<120>>, v |-> JInt(1)]>>) }

\* Every batch of at most MaxBatch tasks, and the batches of one declared
\* task repeated BatchLimit - 1, BatchLimit and BatchLimit + 1 times.
Batches ==
    UNION { [1..n -> BatchWrappers] : n \in 0..MaxBatch }
    \cup { [i \in 1..n |-> w] : n \in (BatchLimit - 1)..(BatchLimit + 1),
                                w \in { b \in BatchWrappers :
                                            b.queue = "default" /\ ~b.is_remote } }

Next ==
    \/ \E module \in RetryModules, limit \in RetryLimits : CallRetry(module, limit)
    \/ RetryAttempt
    \/ RetrySleep
    \/ RetryExhausted
    \/ DeclareTask
    \/ \E q \in Queues, h \in HeaderSets, d \in Payloads : CallInnerRun(q, h, d)
    \/ \E q \in Queues, h \in HeaderSets, d \in Payloads : CallRemoteTask(q, h, d)
    \/ \E w \in Wrappers, limit \in RetryLimits : CallExecute(w, limit)
    \/ ExecuteLocal
    \/ CreateCloudTask
    \/ TaskExecute
    \/ \E ts \in Batches, limit \in RetryLimits : CallBatch(ts, limit)
    \/ BatchLocalStep
    \/ BatchAddStep
    \/ BatchSubmit
    \/ \E b \in BaseTasks, n \in TaskNames, u \in HandlerUrls :
          CallCloudTaskWrapper(b, n, u)
    \/ \E w \in Wrappers, q \in Queues : CallSetQueue(w, q)
    \/ \E w \in Wrappers : CallFormattedHeaders(w)
    \/ \E w \in Wrappers : CallEmulatedTask(w)
    \/ Return

Spec == Init /\ [][Next]_vars

\* ------------------------------------------ execute and retry, with progress
\* The caller declares the task and makes execute and retry calls only.
NextExecute ==
    \/ DeclareTask
    \/ \E module \in RetryModules, limit \in RetryLimits : CallRetry(module, limit)
    \/ RetryAttempt
    \/ RetrySleep
    \/ RetryExhausted
    \/ \E w \in Wrappers, limit \in RetryLimits : CallExecute(w, limit)
    \/ ExecuteLocal
    \/ CreateCloudTask
    \/ TaskExecute
    \/ Return

\* A call that has started goes on: the caller's thread runs its next
\* statement (the calls are synchronous, and time.sleep returns).
Running ==
    \/ RetryAttempt \/ RetrySleep \/ RetryExhausted
    \/ ExecuteLocal \/ CreateCloudTask \/ TaskExecute

SpecExecute == Init /\ [][NextExecute]_vars /\ WF_vars(Running)

\* ------------------------------------------- threads reading the client
\* The state of the one caller's calls, which the threads leave alone.
call == << client_reads, local_runs, pc, op, self, tasks, idx, retry_limit,
           attempts_left, error, invocations, sleeps, bodies, created, batch,
           submitted, skipped, delivered, value, outcome, registry, reports >>

\* Thread t evaluates connection.client: the instance attribute when it is
\* set (cached_property defines no __set__, so the instance __dict__ wins),
\* else cached_property.__get__ is entered.
ThreadLookup(t) ==
    /\ th[t].pc = "out"
    /\ th[t].reads < MaxReads
    /\ th' = IF client # NotSet
             THEN [th EXCEPT ![t].got = client, ![t].reads = @ + 1]
             ELSE [th EXCEPT ![t].pc = "fget"]
    /\ UNCHANGED << config, client, constructed, call >>

\* value = self.fget(obj): a CloudTasksClient is constructed.
ThreadFget(t) ==
    /\ th[t].pc = "fget"
    /\ constructed' = constructed + 1
    /\ th' = [th EXCEPT ![t].pc = "setattr", ![t].value = constructed + 1]
    /\ UNCHANGED << config, client, call >>

\* setattr(obj, self.func_name, value); return value
ThreadSetattr(t) ==
    /\ th[t].pc = "setattr"
    /\ client' = th[t].value
    /\ th' = [th EXCEPT ![t].pc = "out", ![t].got = th[t].value,
                        ![t].reads = @ + 1]
    /\ UNCHANGED << config, constructed, call >>

NextThreads ==
    \/ \E t \in Threads : ThreadLookup(t)
    \/ \E t \in Threads : ThreadFget(t)
    \/ \E t \in Threads : ThreadSetattr(t)

\* Threads of one process reading connection.client, in any interleaving.
SpecThreads == Init /\ [][NextThreads]_vars

\* ================================================================= claims
\* execute is on its third branch (the remote enqueue) for wrapper w.
RemoteCase(w) ==
    /\ ~(execute_locally /\ ~w.is_remote)
    /\ ~(w.is_remote /\ block_remote_tasks)

IsRetry == op \in RetryModules

\* C1: for every retry_limit > 0, when the operation fails on every attempt
\* the retry wrapper has invoked it exactly retry_limit times and raises the
\* last captured error with "Task scheduling limit exhausted" put before its
\* args.
C1_RetryInvokesLimitTimes ==
    (pc = "done" /\ IsRetry /\ retry_limit > 0 /\ outcome.kind = "raised") =>
        /\ invocations = retry_limit
        /\ outcome.err.attempt = retry_limit
        /\ outcome.err.args # <<>>
        /\ Head(outcome.err.args) = ExhaustedPrefix

\* C2: on the remote path with retry_limit > 0, an enqueue that fails is
\* retried after a sleep, retry_limit attempts in all, and the caller sees the
\* error only after exhaustion, with the exhaustion prefix.
C2_ExecuteRetriesEnqueue ==
    (pc = "done" /\ op = "execute" /\ RemoteCase(self) /\ retry_limit > 0
        /\ \E i \in 1..Len(created) : ~created[i].ok /\ outcome.kind = "raised") =>
        /\ Len(created) = retry_limit
        /\ sleeps = retry_limit - 1
        /\ outcome.err.args # <<>>
        /\ Head(outcome.err.args) = ExhaustedPrefix

\* C3: with retry_limit = 0 execute never sleeps and sends create_task at
\* most once; when it ends on the remote path it has sent it exactly once,
\* and an error of that create_task is the outcome, unchanged.
C3_NoRetryEnqueuesOnce ==
    (op = "execute" /\ retry_limit = 0) =>
        /\ sleeps = 0
        /\ invocations = 0
        /\ Len(created) <= 1
        /\ (pc = "done" /\ RemoteCase(self)) =>
              /\ Len(created) = 1
              /\ ~created[1].ok =>
                    /\ created[1].err.args = <<"create_task failed">>
                    /\ outcome = Raised(created[1].err)

C3_Witness ==
    /\ pc = "done" /\ op = "execute" /\ RemoteCase(self) /\ retry_limit = 0
    /\ Len(created) = 1 /\ ~created[1].ok
    /\ outcome.kind = "raised"

\* C4: with execute-locally on and a wrapper not marked remote, execute runs
\* the emulated local path and, whatever retry_limit and however the local
\* run ends, reads connection.client never, sends nothing, and neither
\* enters the retry loop nor sleeps.
C4_LocalPathBypassesRemote ==
    (op = "execute" /\ execute_locally /\ ~self.is_remote) =>
        /\ pc \in {"execute_local", "done"}
        /\ client_reads = 0
        /\ created = <<>>
        /\ batch = <<>>
        /\ submitted = 0
        /\ invocations = 0
        /\ sleeps = 0
        /\ pc = "done" => local_runs = <<self>>

C4_Witness ==
    /\ pc = "done" /\ op = "execute" /\ execute_locally /\ ~self.is_remote
    /\ retry_limit > 0
    /\ local_runs = <<self>>
    /\ outcome.kind # "none"

\* C5: the body execute builds and delivers carries the wrapper's payload:
\* in local mode run_task is handed a body that decodes to the payload, and
\* on the remote path the task given to create_task has the payload's JSON
\* text as its body.
C5_BodyCarriesPayload ==
    (pc = "done" /\ op = "execute") =>
        /\ (execute_locally /\ ~self.is_remote) =>
              /\ Len(delivered) = 1
              /\ delivered[1].body = self.data
        /\ \A i \in 1..Len(created) :
              LET http_request == created[i].req.task.http_request
              IN  /\ "body" \in DOMAIN http_request
                  /\ http_request.body = JsonDumps(self.data)

\* C6: with the wrapper marked remote and block-remote-tasks on, execute
\* returns None without raising and makes no call on the remote client,
\* whatever execute-locally and retry_limit are.
C6_BlockedRemoteIsNoOp ==
    (op = "execute" /\ self.is_remote /\ block_remote_tasks) =>
        /\ pc = "done"
        /\ outcome = Returned("None")
        /\ client_reads = 0
        /\ created = <<>>
        /\ batch = <<>>
        /\ submitted = 0
        /\ local_runs = <<>>

C6_Witness ==
    /\ pc = "done" /\ op = "execute" /\ self.is_remote /\ block_remote_tasks
    /\ execute_locally
    /\ retry_limit > 0
    /\ outcome = Returned("None")
    /\ skipped = <<self>>

\* C7: every task sent to create_task carries, in its request headers, the
\* handler-secret header set to the configured secret, and the caller's
\* custom headers under their normalised names.
C7_BodyCarriesSecretHeader ==
    (op = "execute") =>
        \A i \in 1..Len(created) :
            LET http_request == created[i].req.task.http_request
            IN  /\ "headers" \in DOMAIN http_request
                /\ HANDLER_SECRET_HEADER_NAME \in DOMAIN http_request.headers
                /\ http_request.headers[HANDLER_SECRET_HEADER_NAME] = HandlerSecret
                /\ \A j \in 1..Len(self.headers) :
                      NormalizeKey(self.headers[j].k) \in DOMAIN http_request.headers

\* C8: the body get_body builds from payload P, decoded the way the emulated
\* path decodes it (base64, then JSON), is P again.
C8_RoundTrip ==
    (pc = "done" /\ op = "EmulatedTask") =>
        /\ value.exc = ""
        /\ value.decoded = self.data

\* C9: batch_execute on BatchLimit or more tasks raises the batch-size error
\* with no body built, no task run locally and no call on the remote client,
\* in local and in remote mode; on fewer tasks it never raises that error.
BatchSizeError ==
    Raised(Err("Exception",
               <<"Maximum number of tasks in batch cannot exceed 1000">>, 0))

C9_BatchSizeRejectedFirst ==
    (op = "batch_execute") =>
        /\ Len(tasks) >= BatchLimit =>
              /\ pc = "done"
              /\ outcome = BatchSizeError
              /\ bodies = 0
              /\ local_runs = <<>>
              /\ delivered = <<>>
              /\ client_reads = 0
              /\ created = <<>>
              /\ batch = <<>>
              /\ submitted = 0
        /\ Len(tasks) <= BatchLimit - 1 => outcome # BatchSizeError

C9_Witness ==
    /\ pc = "done" /\ op = "batch_execute"
    /\ Len(tasks) = BatchLimit
    /\ outcome = BatchSizeError

\* C10: in local mode batch_execute handles every task of the batch, in
\* order: the tasks not marked remote are each run locally once, the remote
\* ones are each skipped when block-remote-tasks is on and each enqueued
\* when it is off.
IsLocalTask(t) == ~t.is_remote
IsRemoteTask(t) == t.is_remote

C10_LocalBatchHandlesEveryTask ==
    (pc = "done" /\ op = "batch_execute" /\ execute_locally
        /\ Len(tasks) < BatchLimit) =>
        /\ local_runs = SelectSeq(tasks, IsLocalTask)
        /\ block_remote_tasks =>
              skipped = SelectSeq(tasks, IsRemoteTask) /\ created = <<>>
        /\ ~block_remote_tasks =>
              Len(created) = Len(SelectSeq(tasks, IsRemoteTask)) /\ skipped = <<>>

\* C11: in remote mode batch_execute on n tasks sends nothing while it
\* builds the batch (no create_task per task), and a call that returned
\* made exactly one submission of a batch holding the n tasks.
C11_BatchIsOneNetworkOperation ==
    (op = "batch_execute" /\ ~execute_locally) =>
        /\ created = <<>>
        /\ submitted <= 1
        /\ (pc = "done" /\ outcome.kind = "returned") =>
              submitted = 1 /\ Len(batch) = Len(tasks)

\* C12: in remote mode with a positive retry_limit the batch submission is
\* what is retried: when every submission fails, batch.execute() has been
\* called retry_limit times with a sleep between consecutive calls, and the
\* error raised is the last one with the exhaustion message put first; with
\* a falsy retry_limit a failed submission was made once and its error is
\* raised as it is.
SubmissionFailed ==
    pc = "done" /\ op = "batch_execute" /\ submitted >= 1
        /\ outcome.kind = "raised"

C12_BatchSubmissionRetried ==
    SubmissionFailed =>
        IF retry_limit > 0
        THEN /\ submitted = retry_limit
             /\ sleeps = retry_limit - 1
             /\ Head(outcome.err.args) = ExhaustedPrefix
        ELSE /\ submitted = 1
             /\ sleeps = 0
             /\ Head(outcome.err.args) # ExhaustedPrefix

\* C13: the connection's client is constructed at most once per process:
\* whatever the interleaving of the threads' reads of connection.client,
\* the constructor has run at most once and all reads returned the same
\* client.
C13_ClientConstructedOnce ==
    /\ constructed <= 1
    /\ \A t, u \in Threads :
          (th[t].got # NotSet /\ th[u].got # NotSet) => th[t].got = th[u].got

\* C14: a wrapper made by a remote-only reference (remote_task,
\* RemoteCloudTask) is never run on the emulated local path: whatever the
\* two flags are, neither execute nor batch_execute calls execute_local on
\* a wrapper marked remote.
C14_RemoteNeverRunsLocally ==
    /\ \A i \in 1..Len(local_runs) : ~local_runs[i].is_remote
    /\ pc = "execute_local" => ~self.is_remote

C14_Witness ==
    /\ pc = "done" /\ op = "batch_execute"
    /\ execute_locally /\ ~block_remote_tasks
    /\ \E i \in 1..Len(tasks) : tasks[i].is_remote /\ tasks[i].base_task = ""
    /\ local_runs # <<>>

\* C15: declaring a task, and calling the declared task or a remote-only
\* reference with keyword arguments, registers the definition and makes a
\* wrapper and nothing else: connection.client is not read (so no client is
\* constructed), nothing is sent or submitted, no task body is run.  Those
\* effects belong to execute and batch_execute alone.
Declaring == op \in {"task", "inner_run", "remote_task"}

C15_DeclareAndInvokeDoNoIO ==
    /\ Declaring =>
          /\ client_reads = 0
          /\ created = <<>> /\ batch = <<>> /\ submitted = 0
          /\ local_runs = <<>> /\ delivered = <<>>
    /\ (client_reads > 0 \/ created # <<>> \/ submitted > 0
            \/ local_runs # <<>> \/ delivered # <<>>) =>
          op \in {"execute", "batch_execute"}
    /\ op = "task" => "app.tasks.send" \in registry
    /\ op = "inner_run" => value \in Wrappers /\ ~value.is_remote
    /\ op = "remote_task" => value \in Wrappers /\ value.is_remote

C15_Witness ==
    /\ pc = "done" /\ op = "inner_run"
    /\ value.queue = "reports"
    /\ client = NotSet /\ constructed = 0

\* C16: on the remote path execute enqueues the task to the queue the
\* wrapper is bound to (the declaration's queue, or the one set_queue put
\* last), so wrappers bound to different queues go to different queues.
C16_EnqueuedToBoundQueue ==
    (op = "execute" /\ self \in { SetQueue(w, q) : w \in Wrappers, q \in Queues }) =>
        \A i \in 1..Len(created) :
            created[i].req.parent =
                QueuePath(GoogleProjectId, "us-central1", self.queue)

\* C17: for every retry_limit > 0 and k in 1..retry_limit, an operation
\* that fails on attempts 1..k-1 and succeeds on attempt k is invoked k
\* times: while fewer than retry_limit attempts have been made and failed
\* the wrapper invokes it again, each time after one sleep, and the
\* successful attempt's result is returned, k - 1 sleeps having been made.
C17_RetrySucceedsOnAttemptK ==
    (op = "base.retry" /\ retry_limit > 0) =>
        /\ (pc = "retry_loop" /\ invocations < retry_limit) =>
              sleeps = invocations /\ ENABLED RetryAttempt
        /\ pc = "retry_sleep" => sleeps = invocations - 1
        /\ (pc = "done" /\ outcome.kind = "returned") =>
              /\ outcome = Returned("f()")
              /\ invocations \in 1..retry_limit
              /\ sleeps = invocations - 1

\* C18: every call of execute runs to completion: whatever retry_limit and
\* whichever enqueues fail, it ends, in exactly one of success, the
\* blocked-remote no-op or a raised error, after at most max(1, retry_limit)
\* enqueue attempts; and the retry loop's attempts_left has gone down by one
\* for every failure and is never below zero.
ExecuteEnded == op = "execute" /\ pc = "done"

C18_Bounded ==
    /\ op = "execute" =>
          Len(created) <= (IF retry_limit > 1 THEN retry_limit ELSE 1)
    /\ ExecuteEnded =>
          /\ outcome.kind \in {"returned", "raised"}
          /\ outcome = Returned("None") <=> skipped = <<self>>
          /\ skipped # <<>> => created = <<>> /\ local_runs = <<>>
    /\ op = "base.retry" =>
          /\ attempts_left >= 0
          /\ attempts_left = retry_limit - sleeps
          /\ pc = "retry_loop" => sleeps = invocations
          /\ pc = "retry_sleep" => sleeps = invocations - 1

C18_ExecuteRunsToCompletion ==
    /\ []C18_Bounded
    /\ (op = "execute") ~> ExecuteEnded

C18_Witness ==
    /\ ExecuteEnded
    /\ retry_limit = MaxRetry
    /\ Len(created) = 1
    /\ outcome.kind = "raised"

\* C19: in a remote-mode batch the callback raises nothing for an item
\* reported without an exception, and for the first item reported as failed
\* it raises an error carrying the message decoded from that item's error
\* payload; a batch with a failed item never ends batch_execute as a
\* success.
Failed(items) == { i \in 1..Len(items) : items[i] # NoError }
FirstFailed(items) == CHOOSE i \in Failed(items) : \A j \in Failed(items) : i <= j

\* The message in the error payload of a failed item ("" when the content
\* is not an error payload).
MessageOf(item) ==
    IF \E m \in Messages : item = HttpError(JsonDumps(ErrorDoc(m)))
    THEN Text(CHOOSE m \in Messages : item = HttpError(JsonDumps(ErrorDoc(m))))
    ELSE ""

C19_FirstFailedItemIsRaised ==
    (pc = "done" /\ op = "batch_execute" /\ reports.transport = "ok") =>
        /\ Failed(reports.items) = {} => outcome.kind = "returned"
        /\ Failed(reports.items) # {} =>
              /\ outcome.kind = "raised"
              /\ MessageOf(reports.items[FirstFailed(reports.items)]) # "" =>
                    outcome.err = Err("Exception",
                        <<MessageOf(reports.items[FirstFailed(reports.items)])>>, 0)

C19_Witness ==
    /\ pc = "done" /\ op = "batch_execute"
    /\ Len(reports.items) = 2
    /\ MessageOf(reports.items[1]) = "denied"
    /\ MessageOf(reports.items[2]) = "quota"
    /\ outcome = Raised(Err("Exception", <<"denied">>, 0))

\* C20: execute does exactly one of three things, decided by the flags: it
\* runs the task locally iff execute_locally is on and the wrapper is not
\* remote; it is a no-op iff the wrapper is remote and block_remote_tasks is
\* on; otherwise it enqueues remotely.  So a remote wrapper with blocking
\* off is enqueued even in local mode, and a wrapper that is not remote is
\* never dropped.
RanLocally == local_runs = <<self>> /\ skipped = <<>> /\ created = <<>>
WasNoOp == skipped = <<self>> /\ local_runs = <<>> /\ created = <<>>
WasEnqueued == Len(created) = 1 /\ local_runs = <<>> /\ skipped = <<>>

C20_ThreeWayPartition ==
    (pc = "done" /\ op = "execute") =>
        /\ RanLocally <=> (execute_locally /\ ~self.is_remote)
        /\ WasNoOp <=> (self.is_remote /\ block_remote_tasks)
        /\ WasEnqueued <=>
              ~(execute_locally /\ ~self.is_remote)
                  /\ ~(self.is_remote /\ block_remote_tasks)
        /\ RanLocally \/ WasNoOp \/ WasEnqueued

C20_Witness ==
    /\ pc = "done" /\ op = "execute"
    /\ self.is_remote /\ ~block_remote_tasks /\ execute_locally
    /\ WasEnqueued
    /\ created[1].ok

\* C21: constructing a wrapper with neither a task definition nor an
\* internal task name, or with no handler URL, ends at construction with
\* the configuration error (the ValueError setup raises), and no wrapper is
\* returned.
MissingIdentity == self.base_task = "" /\ self.internal_task_name = ""
MissingUrl == self.task_handler_url = ""

C21_BadWrapperIsConfigurationError ==
    (pc = "done" /\ op = "CloudTaskWrapper" /\ (MissingIdentity \/ MissingUrl)) =>
        /\ outcome.kind = "raised"
        /\ outcome.err.exc = "ValueError"
        /\ value = None

====
